---- MODULE Spec2Model ----
(***************************************************************************)
(* Model of xpra/client/gtk_base/example/tray.py: the construction of      *)
(* FakeApplication (menu helper selection, menu build, tray backend        *)
(* selection, tooltip), the GTK main loop started by main(), and the four  *)
(* tray callbacks plus the two other shutdown entry points.                *)
(*                                                                         *)
(* pc is the position of the single UI thread:                             *)
(*   start -> import_menu -> menu_loop -> build -> import_tray ->          *)
(*   tray_loop -> set_tooltip -> constructed -> running -> quitting ->     *)
(*   exited, or crashed when an exception leaves FakeApplication().        *)
(***************************************************************************)
EXTENDS Integers, Sequences, FiniteSets, TLC

\* ---------------------------------------------------------------- bounds
MaxNative == 1      \* native tray classes returned by get_native_tray_classes()
MaxQueue  == 2      \* pending GLib idle callbacks
MaxTime   == 1      \* event timestamps 0..MaxTime
MaxButton == 3      \* button ids 1..MaxButton

Buttons == 1..MaxButton
Times   == 0..MaxTime

\* line 160: the default of the parameter time of xpra_tray_click.
DefaultTime == 0

\* ------------------------------------------------------- values and names
\* An attribute that was never assigned (reading it raises AttributeError).
Unbound == <<"unbound", 0>>
\* Python's None as a class candidate (falsy in "if x:").
None == <<"None", 0>>

NativeTrayMenuHelper == <<"NativeTrayMenuHelper", 0>>
GTKTrayMenu          == <<"GTK3TrayMenu", 0>>
GTKStatusIconTray    == <<"GTKStatusIconTray", 0>>
NativeTray(k)        == <<"NativeTray", k>>

\* menu_helper.build(): the menu handle built by helper h.
build(h) == <<"menu", h>>

\* tray.get_geometry(): the rectangle currently held by handle t.
get_geometry(t) == <<"geometry", t>>

\* A deferred call self.idle_add(fn, button, time) with fn a bound method
\* of the menu helper obj.
IdleCall(obj, fn, button, time) ==
    [obj |-> obj, fn |-> fn, button |-> button, time |-> time]

VARIABLES
    pc,            \* position of the UI thread
    client,        \* the plain fields of FakeApplication (lines 25-86)
    menu_classes,  \* the tuple iterated at line 94
    menu_helper,   \* self.menu_helper
    menu_helpers,  \* menu helper instances constructed so far, in order
    menu,          \* local variable menu (line 101)
    tray_classes,  \* the list iterated at line 106
    tray,          \* self.tray
    trays,         \* tray instances constructed so far, in order
    tooltips,      \* handles on which set_tooltip was called, in order
    idx,           \* index of the running for loop
    error,         \* the exception that left FakeApplication(), or "none"
    idleQueue,     \* GLib idle sources pending, oldest first
    last           \* the last step taken

vars == <<pc, client, menu_classes, menu_helper, menu_helpers, menu,
          tray_classes, tray, trays, tooltips, idx, error, idleQueue, last>>

construction == <<client, menu_classes, menu_helper, menu_helpers, menu,
                  tray_classes, tray, trays, tooltips, idx, error>>

\* The record of the step the UI thread executed last: the operation, the
\* position it started from, its arguments, the menu calls it ran
\* synchronously, what it logged, and whether an exception left it.
Step(op, args, called, logged) ==
    [op |-> op, at |-> pc, args |-> args, called |-> called, logged |-> logged,
     raised |-> FALSE]

\* The same step, left by an exception.
Raised(op, args) ==
    [op |-> op, at |-> pc, args |-> args, called |-> <<>>, logged |-> <<>>,
     raised |-> TRUE]

\* Variant of line 47: the encodings listed in the other order.
ServerEncodings_RgbFirst == <<"rgb", "png">>

\* line 47
ServerEncodings == <<"png", "rgb">>

\* The values assigned at lines 25-86 (1.0 is written 1, None "None",
\* {} and () the empty sequence).
ClientState == [
    display_desc |-> <<>>,
    session_name |-> "Test System Tray",
    mmap_enabled |-> FALSE,
    windows_enabled |-> TRUE,
    readonly |-> FALSE,
    opengl_enabled |-> FALSE,
    modal_windows |-> FALSE,
    server_bell |-> FALSE,
    server_cursors |-> FALSE,
    server_readonly |-> FALSE,
    server_client_shutdown |-> TRUE,
    server_sharing |-> TRUE,
    server_sharing_toggle |-> TRUE,
    server_lock |-> TRUE,
    server_lock_toggle |-> TRUE,
    server_av_sync |-> TRUE,
    server_virtual_video_devices |-> 4,
    server_webcam |-> TRUE,
    server_sound_send |-> TRUE,
    server_sound_receive |-> TRUE,
    server_clipboard |-> FALSE,
    server_bandwidth_limit_change |-> 0,
    server_encodings |-> ServerEncodings,
    server_encodings_problematic |-> <<>>,
    server_encodings_with_quality |-> <<>>,
    server_encodings_with_speed |-> <<>>,
    server_start_new_commands |-> TRUE,
    server_xdg_menu |-> FALSE,
    server_commands_info |-> "None",
    speaker_allowed |-> TRUE,
    speaker_enabled |-> TRUE,
    microphone_enabled |-> TRUE,
    microphone_allowed |-> TRUE,
    client_supports_opengl |-> TRUE,
    client_supports_notifications |-> TRUE,
    client_supports_system_tray |-> TRUE,
    client_supports_clipboard |-> TRUE,
    client_supports_cursors |-> TRUE,
    client_supports_bell |-> TRUE,
    client_supports_sharing |-> TRUE,
    client_lock |-> FALSE,
    download_server_log |-> "None",
    remote_file_transfer |-> TRUE,
    remote_file_transfer_ask |-> TRUE,
    notifications_enabled |-> FALSE,
    client_clipboard_direction |-> "both",
    clipboard_enabled |-> TRUE,
    cursors_enabled |-> TRUE,
    default_cursor_data |-> "None",
    bell_enabled |-> FALSE,
    keyboard_helper |-> "None",
    av_sync |-> TRUE,
    webcam_forwarding |-> TRUE,
    webcam_device |-> "None",
    can_scale |-> TRUE,
    xscale |-> 1,
    yscale |-> 1,
    quality |-> 80,
    speed |-> 50,
    encoding |-> "png",
    send_download_request |-> "None",
    remote_subcommands |-> <<>> ]

\* No field assigned yet.
NoFields == [session_name |-> "unset"]

\* main() has entered program_context and registered the signal handler;
\* FakeApplication() is about to run.
Init ==
    /\ pc = "start"
    /\ client = NoFields
    /\ menu_classes = <<>>
    /\ menu_helper = Unbound
    /\ menu_helpers = <<>>
    /\ menu = Unbound
    /\ tray_classes = <<>>
    /\ tray = Unbound
    /\ trays = <<>>
    /\ tooltips = <<>>
    /\ idx = 0
    /\ error = "none"
    /\ idleQueue = <<>>
    /\ last = [op |-> "main", at |-> "start", args |-> <<>>, called |-> <<>>,
               logged |-> <<>>, raised |-> FALSE]

\* An exception leaves FakeApplication() and main(): nothing else changes.
Raise(e, op) ==
    /\ pc' = "crashed"
    /\ error' = e
    /\ last' = Raised(op, <<>>)

\* ------------------------------------------------ FakeApplication.__init__
\* lines 22-89: the plain fields.
InitFields ==
    /\ pc = "start"
    /\ pc' = "import_menu"
    /\ client' = ClientState
    /\ last' = Step("InitFields", <<>>, <<>>, <<>>)
    /\ UNCHANGED <<menu_classes, menu_helper, menu_helpers, menu, tray_classes,
                   tray, trays, tooltips, idx, error, idleQueue>>

\* lines 90-94: import GTK3TrayMenu (an ImportError is only logged and leaves
\* the local name GTKTrayMenu unassigned), then build the tuple of menu helper
\* classes; reading the unassigned local raises UnboundLocalError.
ImportMenu ==
    /\ pc = "import_menu"
    /\ \E imported \in BOOLEAN, native \in {None, NativeTrayMenuHelper} :
          IF imported
          THEN /\ pc' = "menu_loop"
               /\ menu_classes' = <<native, GTKTrayMenu>>
               /\ idx' = 1
               /\ last' = Step("ImportMenu", <<imported, native>>, <<>>, <<>>)
               /\ UNCHANGED error
          ELSE /\ pc' = "crashed"
               /\ error' = "UnboundLocalError"
               /\ last' = Raised("ImportMenu", <<imported, native>>)
               /\ UNCHANGED <<menu_classes, idx>>
    /\ UNCHANGED <<client, menu_helper, menu_helpers, menu, tray_classes,
                   tray, trays, tooltips, idleQueue>>

\* lines 94-99: one iteration of the menu helper loop. A falsy class is
\* skipped; a constructor that raises is logged; a constructor that returns
\* is bound to self.menu_helper. The loop has no break.
MenuLoop ==
    /\ pc = "menu_loop"
    /\ idx <= Len(menu_classes)
    /\ LET x == menu_classes[idx] IN
       \E ok \in BOOLEAN :
          /\ IF x # None /\ ok
             THEN /\ menu_helper' = x
                  /\ menu_helpers' = Append(menu_helpers, x)
             ELSE UNCHANGED <<menu_helper, menu_helpers>>
          /\ last' = Step("MenuLoop", <<x, x # None /\ ok>>, <<>>,
                          IF x # None /\ ~ok
                          THEN <<"failed to create menu helper", x>> ELSE <<>>)
    /\ idx' = idx + 1
    /\ UNCHANGED <<pc, client, menu_classes, menu, tray_classes, tray, trays,
                   tooltips, error, idleQueue>>

\* Variant of lines 100-101: no assert, and a missing menu helper only
\* leaves the menu empty.
BuildMenu_NoAssert ==
    /\ pc = "menu_loop"
    /\ idx > Len(menu_classes)
    /\ menu' = IF menu_helper = Unbound THEN None ELSE build(menu_helper)
    /\ pc' = "import_tray"
    /\ last' = Step("BuildMenu", <<>>, <<>>, <<>>)
    /\ UNCHANGED <<client, menu_classes, menu_helper, menu_helpers,
                   tray_classes, tray, trays, tooltips, idx, error, idleQueue>>

\* lines 100-101: assert self.menu_helper, then menu = self.menu_helper.build().
\* Reading the never-assigned attribute raises AttributeError; build() itself
\* may raise.
BuildMenu ==
    /\ pc = "menu_loop"
    /\ idx > Len(menu_classes)
    /\ IF menu_helper = Unbound
       THEN /\ Raise("AttributeError:menu_helper", "BuildMenu")
            /\ UNCHANGED menu
       ELSE \E ok \in BOOLEAN :
               IF ok
               THEN /\ menu' = build(menu_helper)
                    /\ pc' = "import_tray"
                    /\ last' = Step("BuildMenu", <<>>, <<>>, <<>>)
                    /\ UNCHANGED error
               ELSE /\ Raise("BuildError", "BuildMenu")
                    /\ UNCHANGED menu
    /\ UNCHANGED <<client, menu_classes, menu_helper, menu_helpers,
                   tray_classes, tray, trays, tooltips, idx, idleQueue>>

\* get_native_tray_classes(): n platform classes, in priority order.
NativeTrayClasses(n) == [k \in 1..n |-> NativeTray(k)]

\* lines 102-106: import GTKStatusIconTray (None on ImportError) and build the
\* candidate list get_native_tray_classes()+[GTKStatusIconTray].
ImportTray ==
    /\ pc = "import_tray"
    /\ \E n \in 0..MaxNative, fallback \in {None, GTKStatusIconTray} :
          tray_classes' = NativeTrayClasses(n) \o <<fallback>>
    /\ pc' = "tray_loop"
    /\ idx' = 1
    /\ last' = Step("ImportTray", <<>>, <<>>, <<>>)
    /\ UNCHANGED <<client, menu_classes, menu_helper, menu_helpers, menu,
                   tray, trays, tooltips, error, idleQueue>>

\* The effect of one iteration of the tray loop (lines 106-115) on
\* <<self.tray, constructed instances>>, for candidate x whose constructor
\* returns (ok) or raises. The loop has no break: every later candidate is
\* still constructed and rebinds self.tray.
TrayIteration(x, ok, t, ts) ==
    IF x # None /\ ok THEN <<x, Append(ts, x)>> ELSE <<t, ts>>

\* Variants of the tray loop: the constructor is handed self.menu_helper
\* instead of the built menu; and no try/except around the constructor, so
\* the first failure leaves FakeApplication().
TrayLoop_PassesHelper ==
    /\ pc = "tray_loop"
    /\ idx <= Len(tray_classes)
    /\ LET x == tray_classes[idx] IN
       \E ok \in BOOLEAN :
          /\ tray' = TrayIteration(x, ok, tray, trays)[1]
          /\ trays' = TrayIteration(x, ok, tray, trays)[2]
          /\ last' = Step("TrayLoop",
                          <<x, x # None /\ ok,
                            IF x # None THEN menu_helper ELSE None>>,
                          <<>>,
                          IF x # None /\ ~ok
                          THEN <<"failed to create tray", x>> ELSE <<>>)
    /\ idx' = idx + 1
    /\ UNCHANGED <<pc, client, menu_classes, menu_helper, menu_helpers, menu,
                   tray_classes, tooltips, error, idleQueue>>

TrayLoop_NoExcept ==
    /\ pc = "tray_loop"
    /\ idx <= Len(tray_classes)
    /\ LET x == tray_classes[idx] IN
       \E ok \in BOOLEAN :
          /\ tray' = TrayIteration(x, ok, tray, trays)[1]
          /\ trays' = TrayIteration(x, ok, tray, trays)[2]
          /\ IF x # None /\ ~ok
             THEN /\ pc' = "crashed"
                  /\ error' = "TrayError"
                  /\ last' = Raised("TrayLoop", <<x, FALSE, menu>>)
             ELSE /\ last' = Step("TrayLoop",
                                  <<x, x # None /\ ok,
                                    IF x # None THEN menu ELSE None>>,
                                  <<>>, <<>>)
                  /\ UNCHANGED <<pc, error>>
    /\ idx' = idx + 1
    /\ UNCHANGED <<client, menu_classes, menu_helper, menu_helpers, menu,
                   tray_classes, tooltips, idleQueue>>

TrayLoop ==
    /\ pc = "tray_loop"
    /\ idx <= Len(tray_classes)
    /\ LET x == tray_classes[idx] IN
       \E ok \in BOOLEAN :
          /\ tray' = TrayIteration(x, ok, tray, trays)[1]
          /\ trays' = TrayIteration(x, ok, tray, trays)[2]
          /\ last' = Step("TrayLoop",
                          <<x, x # None /\ ok, IF x # None THEN menu ELSE None>>,
                          <<>>,
                          IF x # None /\ ~ok
                          THEN <<"failed to create tray", x>> ELSE <<>>)
    /\ idx' = idx + 1
    /\ UNCHANGED <<pc, client, menu_classes, menu_helper, menu_helpers, menu,
                   tray_classes, tooltips, error, idleQueue>>

\* Variant of line 116: the tooltip is set only when a tray is bound, and
\* construction finishes either way.
SetTooltip_Optional ==
    /\ pc = "tray_loop"
    /\ idx > Len(tray_classes)
    /\ tooltips' = IF tray = Unbound THEN tooltips ELSE Append(tooltips, tray)
    /\ pc' = "constructed"
    /\ last' = Step("SetTooltip", <<>>, <<>>, <<>>)
    /\ UNCHANGED <<client, menu_classes, menu_helper, menu_helpers, menu,
                   tray_classes, tray, trays, idx, error, idleQueue>>

\* line 116: self.tray.set_tooltip(...). Reading the never-assigned attribute
\* self.tray raises AttributeError.
SetTooltip ==
    /\ pc = "tray_loop"
    /\ idx > Len(tray_classes)
    /\ IF tray = Unbound
       THEN /\ Raise("AttributeError:tray", "SetTooltip")
            /\ UNCHANGED tooltips
       ELSE /\ tooltips' = Append(tooltips, tray)
            /\ pc' = "constructed"
            /\ last' = Step("SetTooltip", <<>>, <<>>, <<>>)
            /\ UNCHANGED error
    /\ UNCHANGED <<client, menu_classes, menu_helper, menu_helpers, menu,
                   tray_classes, tray, trays, idx, idleQueue>>

\* ------------------------------------------------------------ main loop
\* line 189: Gtk.main() starts iterating the default main context.
GtkMain ==
    /\ pc = "constructed"
    /\ pc' = "running"
    /\ last' = Step("GtkMain", <<>>, <<>>, <<>>)
    /\ UNCHANGED <<construction, idleQueue>>

\* The main loop dispatches callbacks while it runs, and the sources still
\* pending in the current iteration after Gtk.main_quit() was called.
Dispatching == pc \in {"running", "quitting"}

\* Gtk.main_quit(): the innermost main loop stops after the current
\* iteration; on a loop that is already stopping this changes nothing.
GtkMainQuit(p) == IF p = "running" THEN "quitting" ELSE p

\* The main loop runs the oldest idle source, between callbacks; activate
\* and popup return None, so the source is removed after one run.
IdleDispatch ==
    /\ pc = "running"
    /\ idleQueue # <<>>
    /\ idleQueue' = Tail(idleQueue)
    /\ last' = Step("idle", <<>>, <<Head(idleQueue)>>, <<>>)
    /\ UNCHANGED <<pc, construction>>

\* Gtk.main() returns once the iteration in which quit was requested ends;
\* main() leaves program_context and the process exits.
MainLoopReturn ==
    /\ pc = "quitting"
    /\ pc' = "exited"
    /\ last' = Step("MainLoopReturn", <<>>, <<>>, <<>>)
    /\ UNCHANGED <<construction, idleQueue>>

\* ------------------------------------------------------------- callbacks
\* Variants of the click routing: activate on release instead of press,
\* popup on press instead of release, popup for any released button, and
\* the menu call made directly instead of through idle_add.
TrayClick_ActivateOnRelease(button, pressed, time) ==
    IF button = 1 /\ ~pressed
    THEN <<  <<IdleCall(menu_helper, "activate", button, time)>>, <<>>  >>
    ELSE IF button = 3 /\ ~pressed
    THEN <<  <<IdleCall(menu_helper, "popup", button, time)>>, <<>>  >>
    ELSE <<  <<>>, <<>>  >>

TrayClick_PopupOnPress(button, pressed, time) ==
    IF button = 1 /\ pressed
    THEN <<  <<IdleCall(menu_helper, "activate", button, time)>>, <<>>  >>
    ELSE IF button = 3 /\ pressed
    THEN <<  <<IdleCall(menu_helper, "popup", button, time)>>, <<>>  >>
    ELSE <<  <<>>, <<>>  >>

TrayClick_PopupAnyRelease(button, pressed, time) ==
    IF button = 1 /\ pressed
    THEN <<  <<IdleCall(menu_helper, "activate", button, time)>>, <<>>  >>
    ELSE IF ~pressed
    THEN <<  <<IdleCall(menu_helper, "popup", button, time)>>, <<>>  >>
    ELSE <<  <<>>, <<>>  >>

TrayClick_Inline(button, pressed, time) ==
    IF button = 1 /\ pressed
    THEN <<  <<>>, <<IdleCall(menu_helper, "activate", button, time)>>  >>
    ELSE IF button = 3 /\ ~pressed
    THEN <<  <<>>, <<IdleCall(menu_helper, "popup", button, time)>>  >>
    ELSE <<  <<>>, <<>>  >>

\* lines 160-165. The result is <<idle calls scheduled, menu calls run
\* synchronously>>.
TrayClick(button, pressed, time) ==
    IF button = 1 /\ pressed
    THEN <<  <<IdleCall(menu_helper, "activate", button, time)>>, <<>>  >>
    ELSE IF button = 3 /\ ~pressed
    THEN <<  <<IdleCall(menu_helper, "popup", button, time)>>, <<>>  >>
    ELSE <<  <<>>, <<>>  >>

\* Variant of the click callback: a call is not scheduled again while the
\* same menu function is still pending.
xpra_tray_click_Coalescing(button, pressed, time) ==
    /\ Dispatching
    /\ Len(idleQueue) < MaxQueue
    /\ LET new == TrayClick(button, pressed, time)[1] IN
       idleQueue' = IF new # <<>> /\ \E i \in 1..Len(idleQueue) :
                                        idleQueue[i].fn = new[1].fn
                    THEN idleQueue
                    ELSE idleQueue \o new
    /\ last' = Step("xpra_tray_click", <<button, pressed, time>>,
                    TrayClick(button, pressed, time)[2], <<>>)
    /\ UNCHANGED <<pc, construction>>

xpra_tray_click(button, pressed, time) ==
    /\ Dispatching
    /\ Len(idleQueue) < MaxQueue
    /\ idleQueue' = idleQueue \o TrayClick(button, pressed, time)[1]
    /\ last' = Step("xpra_tray_click", <<button, pressed, time>>,
                    TrayClick(button, pressed, time)[2], <<>>)
    /\ UNCHANGED <<pc, construction>>

\* line 160: the same callback called without a timestamp.
xpra_tray_click_notime(button, pressed) ==
    /\ Dispatching
    /\ Len(idleQueue) < MaxQueue
    /\ idleQueue' = idleQueue \o TrayClick(button, pressed, DefaultTime)[1]
    /\ last' = Step("xpra_tray_click", <<button, pressed>>,
                    TrayClick(button, pressed, DefaultTime)[2], <<>>)
    /\ UNCHANGED <<pc, construction>>

\* Variant of the mouseover callback: it records the hover in a field.
xpra_tray_mouseover_Mutates ==
    /\ Dispatching
    /\ client' = [client EXCEPT !.session_name = "mouseover"]
    /\ last' = Step("xpra_tray_mouseover", <<>>, <<>>, <<>>)
    /\ UNCHANGED <<pc, menu_classes, menu_helper, menu_helpers, menu,
                   tray_classes, tray, trays, tooltips, idx, error, idleQueue>>

\* lines 167-168
xpra_tray_mouseover ==
    /\ Dispatching
    /\ last' = Step("xpra_tray_mouseover", <<>>, <<>>, <<>>)
    /\ UNCHANGED <<pc, construction, idleQueue>>

\* Variant of the exit callback: the quit is deferred through idle_add
\* instead of requested at once.
xpra_tray_exit_Deferred ==
    /\ Dispatching
    /\ Len(idleQueue) < MaxQueue
    /\ idleQueue' = Append(idleQueue, IdleCall(None, "main_quit", 0, 0))
    /\ last' = Step("xpra_tray_exit", <<>>, <<>>, <<>>)
    /\ UNCHANGED <<pc, construction>>

\* lines 170-172
xpra_tray_exit ==
    /\ Dispatching
    /\ pc' = GtkMainQuit(pc)
    /\ last' = Step("xpra_tray_exit", <<>>, <<>>, <<>>)
    /\ UNCHANGED <<construction, idleQueue>>

\* Variant of the geometry callback: the rectangle is read from the first
\* handle that was constructed rather than from self.tray.
xpra_tray_geometry_FirstHandle ==
    /\ Dispatching
    /\ last' = Step("xpra_tray_geometry", <<>>, <<>>, get_geometry(trays[1]))
    /\ UNCHANGED <<pc, construction, idleQueue>>

\* lines 174-175: get_geometry() returns the rectangle, which is logged, or
\* raises; nothing catches the exception, so it leaves the callback.
xpra_tray_geometry ==
    /\ Dispatching
    /\ \E ok \in BOOLEAN :
          last' = IF ok
                  THEN Step("xpra_tray_geometry", <<>>, <<>>, get_geometry(tray))
                  ELSE Raised("xpra_tray_geometry", <<>>)
    /\ UNCHANGED <<pc, construction, idleQueue>>

\* lines 178-179
disconnect_and_quit ==
    /\ Dispatching
    /\ pc' = GtkMainQuit(pc)
    /\ last' = Step("disconnect_and_quit", <<>>, <<>>, <<>>)
    /\ UNCHANGED <<construction, idleQueue>>

\* Variant of the signal handler: the process exits at once instead of
\* asking the main loop to quit.
signal_handler_Exit ==
    /\ Dispatching
    /\ pc' = "exited"
    /\ last' = Step("signal_handler", <<>>, <<>>, <<>>)
    /\ UNCHANGED <<construction, idleQueue>>

\* lines 185-186
signal_handler ==
    /\ Dispatching
    /\ pc' = GtkMainQuit(pc)
    /\ last' = Step("signal_handler", <<>>, <<>>, <<>>)
    /\ UNCHANGED <<construction, idleQueue>>

Next ==
    \/ InitFields
    \/ ImportMenu
    \/ MenuLoop
    \/ BuildMenu
    \/ ImportTray
    \/ TrayLoop
    \/ SetTooltip
    \/ GtkMain
    \/ IdleDispatch
    \/ MainLoopReturn
    \/ \E button \in Buttons, pressed \in BOOLEAN, time \in Times :
          xpra_tray_click(button, pressed, time)
    \/ \E button \in Buttons, pressed \in BOOLEAN :
          xpra_tray_click_notime(button, pressed)
    \/ xpra_tray_mouseover
    \/ xpra_tray_exit
    \/ xpra_tray_geometry
    \/ disconnect_and_quit
    \/ signal_handler

Spec == Init /\ [][Next]_vars

\* The coordinator lifecycle state of the specification, read off the
\* program's position and bindings.
State ==
    IF pc = "crashed" THEN "Failed"
    ELSE IF pc \in {"quitting", "exited"} THEN "Terminated"
    ELSE IF pc \in {"constructed", "running"} THEN "Running"
    ELSE IF tray # Unbound THEN "BackendAttached"
    ELSE IF menu # Unbound THEN "MenuBuilt"
    ELSE "Uninitialized"

TypeOK ==
    /\ pc \in {"start", "import_menu", "menu_loop", "import_tray", "tray_loop",
               "constructed", "running", "quitting", "exited", "crashed"}
    /\ Len(idleQueue) <= MaxQueue
    /\ idx \in 0..(MaxNative + 2)

\* ------------------------------------------------------------ properties
\* FakeApplication() has returned.
Constructed == pc \in {"constructed", "running", "quitting", "exited"}

TrayCallbacks ==
    {"xpra_tray_click", "xpra_tray_mouseover", "xpra_tray_exit",
     "xpra_tray_geometry"}

\* C1: when construction has finished and at least one tray constructor
\* succeeded, self.tray is the first candidate, in list order, whose
\* constructor succeeded.
C1_FirstSuccessIsBound ==
    (Constructed /\ trays # <<>>) => tray = trays[1]

\* C2: when every tray candidate is unavailable or fails, construction fails
\* with a FatalConfiguration error naming the tray stage, no handle is bound,
\* the event loop is never entered without a handle, and no method is called
\* on an absent handle.
C2_AllFailIsFatalConfiguration ==
    /\ (last.op = "SetTooltip" /\ trays = <<>>) =>
          /\ pc = "crashed"
          /\ error = "FatalConfiguration:tray"
          /\ tray = Unbound
    /\ State \in {"Running", "Terminated"} => tray # Unbound
    /\ \A i \in 1..Len(tooltips) : tooltips[i] # Unbound

\* C3: at most one tray handle is ever constructed: no candidate after a
\* successful one is constructed.
C3_AtMostOneTrayConstructed ==
    Len(trays) <= 1

\* C4: a click with button 1, pressed, at time t appends exactly one deferred
\* call menu_helper.activate(1, t) to the idle queue and no popup call.
C4_PrimaryPressSchedulesActivate ==
    [][\A t \in Times :
          (last'.op = "xpra_tray_click" /\ last'.args = <<1, TRUE, t>>) =>
             idleQueue' = Append(idleQueue, IdleCall(menu_helper, "activate", 1, t))
      ]_vars

C4_Witness ==
    /\ last.op = "xpra_tray_click"
    /\ last.args = <<1, TRUE, MaxTime>>
    /\ Len(idleQueue) = 2
    /\ idleQueue[2] = IdleCall(menu_helper, "activate", 1, MaxTime)
    /\ idleQueue[1].fn = "popup"

\* C5: a click with button 3, released, at time t appends exactly one
\* deferred call menu_helper.popup(3, t) to the idle queue and no activate
\* call.
C5_SecondaryReleaseSchedulesPopup ==
    [][\A t \in Times :
          (last'.op = "xpra_tray_click" /\ last'.args = <<3, FALSE, t>>) =>
             idleQueue' = Append(idleQueue, IdleCall(menu_helper, "popup", 3, t))
      ]_vars

C5_Witness ==
    /\ last.op = "xpra_tray_click"
    /\ last.args = <<3, FALSE, MaxTime>>
    /\ Len(idleQueue) = 2
    /\ idleQueue[2] = IdleCall(menu_helper, "popup", 3, MaxTime)
    /\ idleQueue[1].fn = "activate"

\* C6: a click with any other (button, pressed) combination leaves the idle
\* queue unchanged and runs no menu call.
C6_OtherClicksScheduleNothing ==
    [][(/\ last'.op = "xpra_tray_click"
        /\ ~(last'.args[1] = 1 /\ last'.args[2])
        /\ ~(last'.args[1] = 3 /\ ~last'.args[2])) =>
          (idleQueue' = idleQueue /\ last'.called = <<>>)
      ]_vars

C6_Witness ==
    /\ last.op = "xpra_tray_click"
    /\ last.args[1] = 3 /\ last.args[2]
    /\ Len(idleQueue) = 1

\* C7: a menu call never runs inside a tray callback: callbacks run no menu
\* call themselves, and every menu call that runs is run by the main loop
\* from the idle queue, after the callback that scheduled it returned.
C7_MenuCallsOnlyFromIdle ==
    /\ last.op \in TrayCallbacks => last.called = <<>>
    /\ last.called # <<>> => (last.op = "idle" /\ last.at = "running")

C7_Witness ==
    /\ last.op = "idle"
    /\ Len(last.called) = 1
    /\ last.called[1].fn = "popup"
    /\ last.called[1].time = MaxTime

C9_TerminatedAbsorbing ==
    [][State = "Terminated" =>
          /\ State' = "Terminated"
          /\ last'.op \in (TrayCallbacks \ {"xpra_tray_exit"}) =>
                /\ idleQueue' = idleQueue
                /\ last'.called = <<>>
                /\ last'.logged = <<>>
      ]_vars

\* C10: a geometry query logs the rectangle of the handle bound to self.tray
\* and changes no field, binding, position or queue.
C10_GeometryReadOnly ==
    [][last'.op = "xpra_tray_geometry" =>
          /\ tray # Unbound
          /\ ~last'.raised => last'.logged = get_geometry(tray)
          /\ UNCHANGED <<pc, construction, idleQueue>>
      ]_vars

C10_Witness ==
    /\ last.op = "xpra_tray_geometry"
    /\ ~last.raised
    /\ Len(trays) = 2
    /\ last.logged = get_geometry(trays[2])
    /\ idleQueue # <<>>

C12_MenuBuiltOnceBeforeTrays ==
    [][/\ menu' # menu =>
             /\ menu = Unbound
             /\ last'.op = "BuildMenu"
             /\ \E i \in 1..Len(menu_helpers) : menu' = build(menu_helpers[i])
             /\ tray_classes = <<>>
             /\ trays = <<>>
       /\ (last'.op = "TrayLoop" /\ last'.args[1] # None) =>
             /\ menu # Unbound
             /\ last'.args[3] = menu
             /\ menu' = menu
      ]_vars

C12_Witness ==
    /\ last.op = "TrayLoop"
    /\ last.args[1] = GTKStatusIconTray
    /\ last.args[3] = menu
    /\ Len(menu_helpers) = 2
    /\ idx = 3

\* C13: when no menu helper was constructed, construction stops with an
\* error at the menu stage: build() is not called, the tray candidate list is
\* never made, no tray is constructed and MenuBuilt is not reached.
C13_NoMenuHelperIsFatal ==
    (menu_helpers = <<>> /\ pc \notin {"start", "import_menu", "menu_loop"}) =>
       /\ pc = "crashed"
       /\ error \in {"AttributeError:menu_helper", "UnboundLocalError"}
       /\ menu = Unbound
       /\ tray_classes = <<>>
       /\ trays = <<>>
       /\ State = "Failed"

C13_Witness ==
    /\ pc = "crashed"
    /\ error = "AttributeError:menu_helper"
    /\ menu_classes = <<NativeTrayMenuHelper, GTKTrayMenu>>
    /\ menu_helpers = <<>>
    /\ last.op = "BuildMenu"

\* C14: no exception leaves a tray callback.
C14_CallbackExceptionsCaught ==
    last.op \in TrayCallbacks => ~last.raised

\* The forward steps of the lifecycle.
LifecycleSteps ==
    {<<"Uninitialized", "MenuBuilt">>, <<"MenuBuilt", "BackendAttached">>,
     <<"BackendAttached", "Running">>, <<"Running", "Terminated">>}

\* C15: the lifecycle state changes only to its successor (or to failure,
\* from Uninitialized or MenuBuilt); Running is entered from BackendAttached
\* by the one set_tooltip call, which is made on the bound handle.
C15_LifecycleForward ==
    [][/\ State' # State =>
             \/ <<State, State'>> \in LifecycleSteps
             \/ State' = "Failed" /\ State \in {"Uninitialized", "MenuBuilt"}
       /\ (State' = "Running" /\ State # "Running") =>
             /\ State = "BackendAttached"
             /\ tray' = tray
             /\ tooltips' = <<tray>>
       /\ tooltips' # tooltips =>
             /\ tooltips = <<>>
             /\ tray # Unbound
             /\ tooltips' = <<tray>>
      ]_vars

C15_Witness ==
    /\ pc = "exited"
    /\ tooltips = <<tray>>
    /\ Len(trays) = 2

QuitOps == {"signal_handler", "xpra_tray_exit", "disconnect_and_quit"}

\* C16: the signal handler, xpra_tray_exit and disconnect_and_quit have the
\* same effect from every state: a running main loop is asked to quit and
\* nothing else changes.
C16_SameShutdownPath ==
    [][last'.op \in QuitOps =>
          /\ pc' = IF pc = "running" THEN "quitting" ELSE pc
          /\ UNCHANGED <<construction, idleQueue>>
          /\ last'.called = <<>>
          /\ last'.logged = <<>>
          /\ ~last'.raised
      ]_vars

C16_Witness ==
    /\ last.op = "signal_handler"
    /\ last.at = "running"
    /\ pc = "quitting"
    /\ idleQueue # <<>>

\* C17: a tray constructor that raises is logged and the loop goes on to the
\* next candidate; a later candidate whose constructor returns is bound
\* whatever failed before it; a None candidate is skipped without a
\* constructor call; the loop ends only after the last candidate.
C17_FailedCandidateRecoverable ==
    [][/\ last'.op = "TrayLoop" =>
             /\ last'.args[1] = tray_classes[idx]
             /\ idx' = idx + 1
             /\ pc' = "tray_loop"
             /\ error' = "none"
             /\ (last'.args[1] # None /\ ~last'.args[2]) =>
                   /\ last'.logged = <<"failed to create tray", last'.args[1]>>
                   /\ tray' = tray
                   /\ trays' = trays
             /\ last'.args[2] =>
                   /\ tray' = last'.args[1]
                   /\ trays' = Append(trays, last'.args[1])
             /\ last'.args[1] = None =>
                   /\ last'.args[3] = None
                   /\ last'.logged = <<>>
                   /\ tray' = tray
                   /\ trays' = trays
       /\ (pc = "tray_loop" /\ pc' # "tray_loop") => idx > Len(tray_classes)
      ]_vars

C17_Witness ==
    /\ last.op = "TrayLoop"
    /\ last.args[2]
    /\ idx = 3
    /\ trays = <<GTKStatusIconTray>>
    /\ tray = GTKStatusIconTray

\* C18: when GTK3TrayMenu cannot be imported and the native menu helper class
\* is available, construction goes on with the native class alone.
C18_ImportFailureNotFatal ==
    (/\ last.op = "ImportMenu"
     /\ ~last.args[1]
     /\ last.args[2] = NativeTrayMenuHelper) =>
       /\ pc = "menu_loop"
       /\ error = "none"
       /\ menu_classes = <<NativeTrayMenuHelper, None>>

\* C19: once constructed, no step changes a client field, the menu, the menu
\* helper or the tray binding, and a mouseover changes nothing at all.
C19_HandlersDoNotMutate ==
    [][/\ Constructed =>
             /\ client = ClientState
             /\ client' = client
             /\ menu' = menu
             /\ menu_helper' = menu_helper
             /\ tray' = tray
       /\ last'.op = "xpra_tray_mouseover" =>
             UNCHANGED <<pc, construction, idleQueue>>
      ]_vars

C19_Witness ==
    /\ last.op = "xpra_tray_mouseover"
    /\ pc = "quitting"
    /\ client = ClientState
    /\ Len(idleQueue) = 2

\* C20: every click appends to the tail of the idle queue exactly the call
\* its own button, state and timestamp (0 when none is given) select, whatever
\* is already pending, and the main loop runs pending calls oldest first.
C20_ClickRoutingStateless ==
    [][/\ last'.op = "xpra_tray_click" =>
             LET b == last'.args[1]
                 p == last'.args[2]
                 t == IF Len(last'.args) = 3 THEN last'.args[3] ELSE 0
             IN  idleQueue' =
                    IF b = 1 /\ p
                    THEN Append(idleQueue, IdleCall(menu_helper, "activate", b, t))
                    ELSE IF b = 3 /\ ~p
                    THEN Append(idleQueue, IdleCall(menu_helper, "popup", b, t))
                    ELSE idleQueue
       /\ last'.op = "idle" =>
             /\ idleQueue # <<>>
             /\ last'.called = <<Head(idleQueue)>>
             /\ idleQueue' = Tail(idleQueue)
      ]_vars

C20_Witness ==
    /\ last.op = "xpra_tray_click"
    /\ last.args = <<1, TRUE>>
    /\ Len(idleQueue) = 2
    /\ idleQueue[1] = IdleCall(menu_helper, "activate", 1, MaxTime)
    /\ idleQueue[2] = IdleCall(menu_helper, "activate", 1, 0)
====
